---- MODULE Spec2Model ----
(***************************************************************************)
(* A model of the request-execution core of go-tezos (src/gotezos.go):     *)
(* host normalisation (cleanseHost), query construction                    *)
(* (constructQueryParams), the executor (do), the error classifier         *)
(* (handleRPCError), the facade (get/post/delete, SetClient, SetConstants) *)
(* and the bootstrap sequence (New).                                       *)
(*                                                                         *)
(* Text (hosts, paths, bodies, query strings) is a sequence of lexemes.    *)
(* A lexeme is a short piece of text; the text is the concatenation.  The  *)
(* alphabets below are chosen so that a textual prefix, suffix or          *)
(* substring test on the concatenation agrees with the same test on the    *)
(* lexeme sequence (see each alphabet).                                    *)
(***************************************************************************)
EXTENDS Integers, Sequences, FiniteSets, TLC

\* ------------------------------------------------------------------ bounds
MaxHostLen == 4
MaxBodyLen == 3
MaxErrs == 2
MaxKeyLen == 1
MaxOpts == 3

\* ------------------------------------------------------------------- text
\* All sequences over S of length lo..hi.
SeqsOf(S, lo, hi) ==
    UNION { [1..n -> S] : n \in lo..hi }

\* strings.HasPrefix
HasPrefix(s, p) ==
    /\ Len(p) <= Len(s)
    /\ SubSeq(s, 1, Len(p)) = p

\* strings.Contains
Contains(s, sub) ==
    \E i \in 0..(Len(s) - Len(sub)) : SubSeq(s, i + 1, i + Len(sub)) = sub

RECURSIVE Join(_)
\* The concatenation of a sequence of texts.
Join(ss) ==
    IF ss = <<>> THEN <<>> ELSE Head(ss) \o Join(Tail(ss))

\* -------------------------------------------------------- Host Normalizer
\* Host lexemes.  "/" is the only lexeme that ends in a slash and no lexeme
\* is a prefix of another, so "last byte is '/'" is "last lexeme is "/"" and
\* "starts with http://" is "starts with <<"http:", "/", "/">>".
\* "\x7f" is a control byte (url.Parse rejects it).
HostAlphabet == {"http:", "https:", "/", "node"}
HttpPrefix == <<"http:", "/", "/">>
HttpsPrefix == <<"https:", "/", "/">>

\* cleanseHost without the default scheme.
cleanseHostNoPrefix(host) ==
    IF host[Len(host)] = "/" THEN SubSeq(host, 1, Len(host) - 1) ELSE host

\* cleanseHost(host), for a non-empty host (host[len(host)-1] panics on "").
cleanseHost(host) ==
    LET h1 == IF host[Len(host)] = "/"
              THEN SubSeq(host, 1, Len(host) - 1) ELSE host
    IN  IF ~HasPrefix(h1, HttpPrefix) /\ ~HasPrefix(h1, HttpsPrefix)
        THEN HttpPrefix \o h1 ELSE h1

\* ----------------------------------------------------------- Query Builder
\* An option is the record rpcOptions{Key, Value}; keys and values are texts
\* over single-byte lexemes.  Code is the byte value of a lexeme.
KeyAlphabet == {"a", "b"}
OptKeys == SeqsOf(KeyAlphabet, 0, MaxKeyLen)
OptValues == {<<"1">>, <<"&", " ", "=">>}
Options == [Key : OptKeys, Value : OptValues]

Code(c) ==
    CASE c = " " -> 32
      [] c = "&" -> 38
      [] c = "1" -> 49
      [] c = "=" -> 61
      [] c = "a" -> 97
      [] c = "b" -> 98

\* url.QueryEscape of one byte: letters and digits stay, a space becomes "+",
\* every other byte becomes %XX.
EscapeByte(c) ==
    CASE c = " " -> "+"
      [] c = "&" -> "%26"
      [] c = "=" -> "%3D"
      [] OTHER -> c

\* url.QueryEscape
QueryEscape(s) ==
    [i \in 1..Len(s) |-> EscapeByte(s[i])]

\* s < t in the byte order of Go strings (sort.Strings).
RECURSIVE StrLess(_, _)
StrLess(s, t) ==
    IF t = <<>> THEN FALSE
    ELSE IF s = <<>> THEN TRUE
    ELSE IF Code(Head(s)) # Code(Head(t)) THEN Code(Head(s)) < Code(Head(t))
    ELSE StrLess(Tail(s), Tail(t))

\* url.Values.Add over all options, from an empty url.Values: the map from
\* each key to its values in the order they were added.
ValuesOf(opts, k) ==
    LET RECURSIVE pick(_)
        pick(os) == IF os = <<>> THEN <<>>
                    ELSE IF Head(os).Key = k THEN <<Head(os).Value>> \o pick(Tail(os))
                    ELSE pick(Tail(os))
    IN  pick(opts)

KeysOf(opts) ==
    { opts[i].Key : i \in 1..Len(opts) }

\* The keys of a url.Values in the order Encode visits them (sort.Strings).
RECURSIVE SortedKeys(_)
SortedKeys(ks) ==
    IF ks = {} THEN <<>>
    ELSE LET m == CHOOSE k \in ks : \A o \in ks : ~StrLess(o, k)
         IN  <<m>> \o SortedKeys(ks \ {m})

\* The query built with q.Set in place of q.Add: a later option replaces an
\* earlier one of the same key.
constructQueryParamsSet(opts) ==
    LET ks == SortedKeys(KeysOf(opts))
        all == [i \in 1..Len(ks) |->
                  LET vs == ValuesOf(opts, ks[i])
                  IN  QueryEscape(ks[i]) \o <<"=">> \o QueryEscape(vs[Len(vs)])]
    IN  Join([i \in 1..Len(all) |-> IF i = 1 THEN all[i] ELSE <<"&">> \o all[i]])

\* url.Values.Encode: "key=value" pairs joined by "&", keys sorted, the values
\* of one key in the order they were added, keys and values escaped.
Encode(opts) ==
    LET pairs(k) == LET vs == ValuesOf(opts, k)
                    IN  [i \in 1..Len(vs) |-> QueryEscape(k) \o <<"=">> \o QueryEscape(vs[i])]
        ks == SortedKeys(KeysOf(opts))
        all == Join([i \in 1..Len(ks) |-> pairs(ks[i])])
    IN  Join([i \in 1..Len(all) |-> IF i = 1 THEN all[i] ELSE <<"&">> \o all[i]])

\* constructQueryParams(req, opts...) on a request with no query: the new
\* req.URL.RawQuery.
constructQueryParams(opts) ==
    Encode(opts)

\* ------------------------------------------------------------ JSON decoding
\* Body lexemes.  Q is the double quote.  Only the lexeme "error" holds the
\* bytes e-r-r-o-r, and no two lexemes join to spell them, so the body text
\* contains "error" exactly when the lexeme occurs in it.
Q == "\""
Ws == " "
Digit == "1"

Val(t, s, items) ==
    [t |-> t, s |-> s, items |-> items]

Failed ==
    [ok |-> FALSE, pos |-> 0, val |-> Val("none", <<>>, <<>>)]

Parsed(pos, val) ==
    [ok |-> TRUE, pos |-> pos, val |-> val]

RECURSIVE SkipWs(_, _)
SkipWs(b, i) ==
    IF i <= Len(b) /\ b[i] = Ws THEN SkipWs(b, i + 1) ELSE i

RECURSIVE SkipDigits(_, _)
SkipDigits(b, i) ==
    IF i <= Len(b) /\ b[i] = Digit THEN SkipDigits(b, i + 1) ELSE i

RECURSIVE StringEnd(_, _)
\* The position of the quote closing the string whose content starts at i,
\* or 0 when the string is not closed.
StringEnd(b, i) ==
    IF i > Len(b) THEN 0
    ELSE IF b[i] = Q THEN i
    ELSE StringEnd(b, i + 1)

RECURSIVE ParseValue(_, _)
RECURSIVE ParseElems(_, _, _)
RECURSIVE ParseMembers(_, _, _)

\* After an element (acc: the elements so far), at position j: "]" or ",".
ElemsSep(b, acc, j) ==
    IF j > Len(b) THEN Failed
    ELSE IF b[j] = "]" THEN Parsed(j + 1, Val("arr", <<>>, acc))
    ELSE IF b[j] = "," THEN ParseElems(b, j + 1, acc)
    ELSE Failed

\* The element r has been read.
ElemsNext(b, acc, r) ==
    IF ~r.ok THEN Failed ELSE ElemsSep(b, Append(acc, r.val), SkipWs(b, r.pos))

\* The elements of an array after "[" (acc: those read so far), at a value.
ParseElems(b, i, acc) ==
    ElemsNext(b, acc, ParseValue(b, i))

\* After a member (acc: the members so far), at position j: "}" or ",".
MembersSep(b, acc, j) ==
    IF j > Len(b) THEN Failed
    ELSE IF b[j] = "}" THEN Parsed(j + 1, Val("obj", <<>>, acc))
    ELSE IF b[j] = "," THEN ParseMembers(b, j + 1, acc)
    ELSE Failed

\* The value r of the member named key has been read.
MembersNext(b, acc, key, r) ==
    IF ~r.ok THEN Failed
    ELSE MembersSep(b, Append(acc, [key |-> key, val |-> r.val]), SkipWs(b, r.pos))

\* The key in quotes from k to e has been read; c is the position after it.
MemberValue(b, acc, k, e, c) ==
    IF c <= Len(b) /\ b[c] = ":"
    THEN MembersNext(b, acc, SubSeq(b, k + 1, e - 1), ParseValue(b, c + 1))
    ELSE Failed

\* A key opens at k and closes at e (0: it does not).
MemberKey(b, acc, k, e) ==
    IF e = 0 THEN Failed ELSE MemberValue(b, acc, k, e, SkipWs(b, e + 1))

\* At the opening quote of a key, or not.
MemberStart(b, acc, k) ==
    IF k <= Len(b) /\ b[k] = Q THEN MemberKey(b, acc, k, StringEnd(b, k + 1)) ELSE Failed

\* The members of an object after "{" (acc: those read so far), at a key.
ParseMembers(b, i, acc) ==
    MemberStart(b, acc, SkipWs(b, i))

\* A string opens at k and closes at e (0: it does not).
StringValue(b, k, e) ==
    IF e = 0 THEN Failed ELSE Parsed(e + 1, Val("str", SubSeq(b, k + 1, e - 1), <<>>))

\* A number from k to before e.
NumberValue(b, k, e) ==
    Parsed(e, Val("num", SubSeq(b, k, e - 1), <<>>))

\* After "[" at k, j the next position that is not white space.
ArrayValue(b, k, j) ==
    IF j <= Len(b) /\ b[j] = "]" THEN Parsed(j + 1, Val("arr", <<>>, <<>>))
    ELSE ParseElems(b, k + 1, <<>>)

\* After "{" at k, j the next position that is not white space.
ObjectValue(b, k, j) ==
    IF j <= Len(b) /\ b[j] = "}" THEN Parsed(j + 1, Val("obj", <<>>, <<>>))
    ELSE ParseMembers(b, k + 1, <<>>)

\* One JSON value starting at position k, which holds no white space.
ValueAt(b, k) ==
    IF k > Len(b) THEN Failed
    ELSE CASE b[k] = "null" -> Parsed(k + 1, Val("null", <<>>, <<>>))
           [] b[k] = Digit -> NumberValue(b, k, SkipDigits(b, k))
           [] b[k] = Q -> StringValue(b, k, StringEnd(b, k + 1))
           [] b[k] = "[" -> ArrayValue(b, k, SkipWs(b, k + 1))
           [] b[k] = "{" -> ObjectValue(b, k, SkipWs(b, k + 1))
           [] OTHER -> Failed

\* One JSON value starting at or after position i (white space skipped).
ParseValue(b, i) ==
    ValueAt(b, SkipWs(b, i))

\* r is the first value of the text: nothing but white space may follow.
WholeText(b, r) ==
    IF r.ok /\ SkipWs(b, r.pos) = Len(b) + 1 THEN r ELSE Failed

\* The whole text as one JSON value (json's checkValid, then the value).
ParseJSON(b) ==
    WholeText(b, ParseValue(b, 1))

\* RPCError{Kind, Error}
RPCError(kind, error) ==
    [Kind |-> kind, Error |-> error]

\* One array element decoded into an RPCError: [ok, rec].  null leaves the
\* zero value; an object sets the fields named "kind" and "error" from string
\* members (null leaves a field, any other type is a type error, other keys
\* are skipped, a repeated key overwrites); anything else is a type error.
DecodeRPCError(v) ==
    LET RECURSIVE fill(_, _)
        fill(ms, acc) ==
            IF ms = <<>> THEN acc
            ELSE LET m == Head(ms)
                     known == m.key \in {<<"kind">>, <<"error">>}
                     bad == known /\ m.val.t \notin {"str", "null"}
                     set == known /\ m.val.t = "str"
                     rec == IF set /\ m.key = <<"kind">> THEN RPCError(m.val.s, acc.rec.Error)
                            ELSE IF set THEN RPCError(acc.rec.Kind, m.val.s)
                            ELSE acc.rec
                 IN  fill(Tail(ms), [ok |-> acc.ok /\ ~bad, rec |-> rec])
        zero == [ok |-> TRUE, rec |-> RPCError(<<>>, <<>>)]
    IN  CASE v.t = "null" -> zero
          [] v.t = "obj" -> fill(v.items, zero)
          [] OTHER -> [ok |-> FALSE, rec |-> zero.rec]

\* The elements of a decoded array, each decoded into an RPCError.
DecodedRPCErrors(ds) ==
    [ok |-> \A i \in 1..Len(ds) : ds[i].ok, errs |-> [i \in 1..Len(ds) |-> ds[i].rec]]

\* The parsed text p decoded into RPCErrors{}: null leaves it empty, an array
\* fills it, anything else is a type error.
UnmarshalValue(p) ==
    IF ~p.ok THEN [ok |-> FALSE, errs |-> <<>>]
    ELSE CASE p.val.t = "null" -> [ok |-> TRUE, errs |-> <<>>]
           [] p.val.t = "arr" ->
                DecodedRPCErrors([i \in 1..Len(p.val.items) |-> DecodeRPCError(p.val.items[i])])
           [] OTHER -> [ok |-> FALSE, errs |-> <<>>]

\* json.Unmarshal(resp, &rpcErrors) into RPCErrors{}: [ok, errs].
UnmarshalRPCErrors(resp) ==
    UnmarshalValue(ParseJSON(resp))

\* ------------------------------------------------------------------ errors
\* An error is its chain of frames, outermost first; nil is the empty chain.
\* errors.Wrap(err, msg) puts a frame in front of the cause's chain.
NoError == <<>>

Frame(msg, code, kind, text) ==
    [msg |-> msg, code |-> code, kind |-> kind, text |-> text]

Cause(msg) ==
    <<Frame(msg, 0, <<>>, <<>>)>>

\* errors.Wrap(err, msg), err non-nil
Wrap(err, msg) ==
    Cause(msg) \o err

\* The messages of the code.
MsgConstruct == "failed to construct request"
MsgComplete == "failed to complete request"
MsgReadBody == "could not read response body"
MsgStatus == "response returned code %d with body %s"
MsgUnmarshal == "could not unmarshal rpc error"
MsgRPC == "rpc error (%s): %s"
MsgInit == "could not initialize library with network constants"

\* The underlying causes, raised by the libraries.
ErrURL == Cause("net/url: parse error")
ErrTransport == Cause("net/http: transport failure")
ErrRead == Cause("io: read failure")
ErrJSON == Cause("encoding/json: decode failure")

\* -------------------------------------------------------- Error Classifier
rpcErrorOfLast(u) ==
    IF ~u.ok THEN [panic |-> FALSE, err |-> Wrap(ErrJSON, MsgUnmarshal)]
    ELSE IF u.errs = <<>> THEN [panic |-> TRUE, err |-> NoError]
    ELSE [panic |-> FALSE,
          err |-> <<Frame(MsgRPC, 0, u.errs[Len(u.errs)].Kind, u.errs[Len(u.errs)].Error)>>]

\* handleRPCError once json.Unmarshal has returned u: [panic, err].
\* rpcErrors[0] on an empty RPCErrors is an index out of range, a run-time
\* panic.
rpcErrorOf(u) ==
    IF ~u.ok THEN [panic |-> FALSE, err |-> Wrap(ErrJSON, MsgUnmarshal)]
    ELSE IF u.errs = <<>> THEN [panic |-> TRUE, err |-> NoError]
    ELSE [panic |-> FALSE, err |-> <<Frame(MsgRPC, 0, u.errs[1].Kind, u.errs[1].Error)>>]

handleRPCErrorQuoted(resp) ==
    IF Contains(resp, <<Q, "error", Q>>) THEN rpcErrorOf(UnmarshalRPCErrors(resp))
    ELSE [panic |-> FALSE, err |-> NoError]

\* handleRPCError(resp): [panic, err]
handleRPCError(resp) ==
    IF Contains(resp, <<"error">>) THEN rpcErrorOf(UnmarshalRPCErrors(resp))
    ELSE [panic |-> FALSE, err |-> NoError]

\* ------------------------------------------------------ Transport Executor
StatusOK == 200

\* What the transport and the node answer to one request: no connection, or a
\* status and a body stream that delivers `body` and then ends (readOK) or
\* fails (~readOK).
TransportFailure ==
    [connected |-> FALSE, status |-> 0, body |-> <<>>, readOK |-> FALSE]

Response(status, body, readOK) ==
    [connected |-> TRUE, status |-> status, body |-> body, readOK |-> readOK]

\* A []byte: nil, or the bytes.
NilBytes == [nil |-> TRUE, data |-> <<>>]

Bytes(data) ==
    [nil |-> FALSE, data |-> data]

\* The calls do makes, in order: t.client.Do and CloseIdleConnections on the
\* client c, ioutil.ReadAll and handleRPCError.
Event(ev, on) ==
    [ev |-> ev, on |-> on]

Sent(c) ==
    <<Event("Do", c)>>

Read(c) ==
    Sent(c) \o <<Event("ReadAll", "")>>

Classified(c) ==
    Read(c) \o <<Event("handleRPCError", "")>>

Returned(bytes, err, events) ==
    [bytes |-> bytes, err |-> err, events |-> events, panic |-> FALSE]

Panicked(events) ==
    [bytes |-> NilBytes, err |-> NoError, events |-> events, panic |-> TRUE]

doClassifiedNilBytes(c, r, h) ==
    IF h.panic THEN Panicked(Classified(c))
    ELSE IF h.err # NoError THEN Returned(NilBytes, h.err, Classified(c))
    ELSE Returned(Bytes(r.body), NoError,
                  Classified(c) \o <<Event("CloseIdleConnections", c)>>)

doClassifiedCloseAlways(c, r, h) ==
    IF h.panic THEN Panicked(Classified(c))
    ELSE Returned(Bytes(r.body), h.err,
                  Classified(c) \o <<Event("CloseIdleConnections", c)>>)

\* do once handleRPCError has returned h.  A panic unwinds do: nothing is
\* returned.
doClassified(c, r, h) ==
    IF h.panic THEN Panicked(Classified(c))
    ELSE IF h.err # NoError THEN Returned(Bytes(r.body), h.err, Classified(c))
    ELSE Returned(Bytes(r.body), NoError,
                  Classified(c) \o <<Event("CloseIdleConnections", c)>>)

doStatusAfterClassifier(c, r) ==
    IF Contains(r.body, <<"error">>) \/ r.status = StatusOK
    THEN doClassified(c, r, handleRPCError(r.body))
    ELSE Returned(Bytes(r.body), <<Frame(MsgStatus, r.status, <<>>, r.body)>>, Read(c))

\* do once the body has been read.
doStatus(c, r) ==
    IF r.status # StatusOK
    THEN Returned(Bytes(r.body), <<Frame(MsgStatus, r.status, <<>>, r.body)>>, Read(c))
    ELSE doClassified(c, r, handleRPCError(r.body))

\* do once the transport has returned a response.
doRead(c, r) ==
    IF ~r.readOK THEN Returned(Bytes(r.body), Wrap(ErrRead, MsgReadBody), Read(c))
    ELSE doStatus(c, r)

\* t.do(req) on the client whose transport is c, the transport and the node
\* answering r: [bytes, err, events, panic].
do(c, r) ==
    IF ~r.connected THEN Returned(NilBytes, Wrap(ErrTransport, MsgComplete), Sent(c))
    ELSE doRead(c, r)

\* ------------------------------------------------------------ Client Facade
\* Path lexemes hold no ":" and no "?"; Ctl is a control byte (0x7f).
Ctl == "DEL"

\* The text between "scheme://" and the next "/" of a URL that starts with
\* HttpPrefix or HttpsPrefix.
Authority(url) ==
    LET RECURSIVE upto(_)
        upto(i) == IF i > Len(url) \/ url[i] = "/" THEN i ELSE upto(i + 1)
    IN  SubSeq(url, 4, upto(4) - 1)

\* Whether url.Parse accepts the URL (http.NewRequest fails otherwise): no
\* control byte, and nothing but digits after the last ":" of the authority
\* (no lexeme is a digit, so the last ":" ends the authority).
ParseOK(url) ==
    LET a == Authority(url)
        colon(i) == a[i] \in {"http:", "https:"}
    IN  /\ \A i \in 1..Len(url) : url[i] # Ctl
        /\ (\E i \in 1..Len(a) : colon(i)) => colon(Len(a))

\* The struct GoTezos{client, networkConstants, host}.  networkConstants is a
\* *Constants: nil (set = FALSE), or a pointer to val.
ZeroConstants == [PreservedCycles |-> 0, BlocksPerCycle |-> 0]

NilConstants == [set |-> FALSE, val |-> ZeroConstants]

PtrTo(k) ==
    [set |-> TRUE, val |-> k]

GoTezos(c, k, h) ==
    [client |-> c, networkConstants |-> k, host |-> h]

DefaultClient == "default"

\* What get, post and delete return, with the request they built.
Call(method, url, query, res) ==
    [method |-> method, url |-> url, query |-> query, bytes |-> res.bytes,
     err |-> res.err, events |-> res.events, panic |-> res.panic]

\* The body shared by get, post and delete: http.NewRequest on host+path,
\* constructQueryParams, do.
request(t, method, path, opts, r) ==
    IF ~ParseOK(t.host \o path)
    THEN Call(method, t.host \o path, <<>>,
              Returned(NilBytes, Wrap(ErrURL, MsgConstruct), <<>>))
    ELSE Call(method, t.host \o path, constructQueryParams(opts), do(t.client, r))

post(t, path, body, opts, r) ==
    request(t, "POST", path, opts, r)

get(t, path, opts, r) ==
    request(t, "GET", path, opts, r)

delete(t, path, opts, r) ==
    request(t, "DELETE", path, opts, r)

\* t.SetClient(client)
SetClient(t, c) ==
    [t EXCEPT !.client = c]

\* t.SetConstants(constants)
SetConstants(t, k) ==
    [t EXCEPT !.networkConstants = PtrTo(k)]

\* ------------------------------------------------------ Bootstrap Sequence
\* Head and Constants are the two endpoint wrappers New calls (GetHead here:
\* Head is the Sequences operator).  Each gets a path, wraps a failure with
\* the name of its step, and decodes the body.
MsgHead == "could not get head block"
MsgConstants == "could not get network constants"
HeadPath == <<"/", "chains", "/", "main", "/", "blocks", "/", "head">>

ConstantsPath(hash) ==
    <<"/", "chains", "/", "main", "/", "blocks", "/">> \o hash \o
    <<"/", "context", "/", "constants">>

RECURSIVE NumValue(_)
\* The number a run of digits denotes (every digit lexeme is "1").
NumValue(s) ==
    IF s = <<>> THEN 0 ELSE 10 * NumValue(SubSeq(s, 1, Len(s) - 1)) + 1

\* The string member `name` of a decoded object: [ok, s] (absent or null: "").
StringMember(v, name) ==
    LET RECURSIVE fill(_, _)
        fill(ms, acc) ==
            IF ms = <<>> THEN acc
            ELSE LET m == Head(ms)
                     hit == m.key = <<name>>
                 IN  fill(Tail(ms),
                          [ok |-> acc.ok /\ (hit => m.val.t \in {"str", "null"}),
                           s |-> IF hit /\ m.val.t = "str" THEN m.val.s ELSE acc.s])
    IN  fill(v.items, [ok |-> TRUE, s |-> <<>>])

\* The integer member `name` of a decoded object: [ok, n] (absent or null: 0).
IntMember(v, name) ==
    LET RECURSIVE fill(_, _)
        fill(ms, acc) ==
            IF ms = <<>> THEN acc
            ELSE LET m == Head(ms)
                     hit == m.key = <<name>>
                 IN  fill(Tail(ms),
                          [ok |-> acc.ok /\ (hit => m.val.t \in {"num", "null"}),
                           n |-> IF hit /\ m.val.t = "num" THEN NumValue(m.val.s) ELSE acc.n])
    IN  fill(v.items, [ok |-> TRUE, n |-> 0])

HeadResult(err, hash, g) ==
    [err |-> err, hash |-> hash, call |-> g, panic |-> g.panic]

\* Head once the body is parsed (p) and its "hash" member read (h).
HeadDecoded(g, p, h) ==
    IF p.ok /\ p.val.t \in {"obj", "null"} /\ h.ok THEN HeadResult(NoError, h.s, g)
    ELSE HeadResult(Wrap(ErrJSON, MsgHead), <<>>, g)

HeadParsed(g, p) ==
    HeadDecoded(g, p, StringMember(p.val, "hash"))

\* Head once get has returned g.
HeadOf(g) ==
    IF g.panic THEN HeadResult(NoError, <<>>, g)
    ELSE IF g.err # NoError THEN HeadResult(Wrap(g.err, MsgHead), <<>>, g)
    ELSE HeadParsed(g, ParseJSON(g.bytes.data))

\* t.Head(): [err, hash, call, panic]
GetHead(t, r) ==
    HeadOf(get(t, HeadPath, <<>>, r))

ConstantsResult(err, k, g) ==
    [err |-> err, constants |-> k, call |-> g, panic |-> g.panic]

\* Constants once the body is parsed (p) and its members read (pc, bc).
ConstantsDecoded(g, p, pc, bc) ==
    IF p.ok /\ p.val.t \in {"obj", "null"} /\ pc.ok /\ bc.ok
    THEN ConstantsResult(NoError, [PreservedCycles |-> pc.n, BlocksPerCycle |-> bc.n], g)
    ELSE ConstantsResult(Wrap(ErrJSON, MsgConstants), ZeroConstants, g)

ConstantsParsed(g, p) ==
    ConstantsDecoded(g, p, IntMember(p.val, "preserved_cycles"),
                     IntMember(p.val, "blocks_per_cycle"))

\* Constants once get has returned g.
ConstantsOf(g) ==
    IF g.panic THEN ConstantsResult(NoError, ZeroConstants, g)
    ELSE IF g.err # NoError THEN ConstantsResult(Wrap(g.err, MsgConstants), ZeroConstants, g)
    ELSE ConstantsParsed(g, ParseJSON(g.bytes.data))

\* t.Constants(hash): [err, constants, call, panic]
Constants(t, hash, r) ==
    ConstantsOf(get(t, ConstantsPath(hash), <<>>, r))

\* One bootstrap fetch New made: its step, the error it returned, its call.
Fetch(step, f) ==
    [step |-> step, err |-> f.err, call |-> f.call]

\* What New returns: the client (nil = TRUE: a nil *GoTezos), the error, and
\* the fetches it made; panic when it does not return.
NewReturn(isNil, t, err, fetches) ==
    [nil |-> isNil, gt |-> t, err |-> err, fetches |-> fetches, panic |-> FALSE]

NewPanic(fetches) ==
    [nil |-> TRUE, gt |-> GoTezos(DefaultClient, NilConstants, <<>>), err |-> NoError,
     fetches |-> fetches, panic |-> TRUE]

NewAfterConstantsUnwrapped(t, block, k) ==
    IF k.panic THEN NewPanic(<<Fetch("head", block), Fetch("constants", k)>>)
    ELSE IF k.err # NoError
    THEN NewReturn(FALSE, t, Cause(MsgInit), <<Fetch("head", block), Fetch("constants", k)>>)
    ELSE NewReturn(FALSE, [t EXCEPT !.networkConstants = PtrTo(k.constants)], NoError,
                   <<Fetch("head", block), Fetch("constants", k)>>)

NewAfterConstantsNil(t, block, k) ==
    IF k.panic THEN NewPanic(<<Fetch("head", block), Fetch("constants", k)>>)
    ELSE IF k.err # NoError
    THEN NewReturn(TRUE, t, Wrap(k.err, MsgInit), <<Fetch("head", block), Fetch("constants", k)>>)
    ELSE NewReturn(FALSE, [t EXCEPT !.networkConstants = PtrTo(k.constants)], NoError,
                   <<Fetch("head", block), Fetch("constants", k)>>)

\* New once gt.Constants(block.Hash) has returned k.
NewAfterConstants(t, block, k) ==
    IF k.panic THEN NewPanic(<<Fetch("head", block), Fetch("constants", k)>>)
    ELSE IF k.err # NoError
    THEN NewReturn(FALSE, t, Wrap(k.err, MsgInit), <<Fetch("head", block), Fetch("constants", k)>>)
    ELSE NewReturn(FALSE, [t EXCEPT !.networkConstants = PtrTo(k.constants)], NoError,
                   <<Fetch("head", block), Fetch("constants", k)>>)

\* New once gt.Head() has returned block, the node answering the constants
\* fetch with r2.
NewAfterHead(t, block, r2) ==
    IF block.panic THEN NewPanic(<<Fetch("head", block)>>)
    ELSE IF block.err # NoError
    THEN NewReturn(FALSE, t, Wrap(block.err, MsgInit), <<Fetch("head", block)>>)
    ELSE NewAfterConstants(t, block, Constants(t, block.hash, r2))

\* The client New builds before it fetches.
NewClient(host) ==
    GoTezos(DefaultClient, NilConstants, cleanseHost(host))

\* New(host), the node answering the head fetch with r1 and the constants
\* fetch with r2.  cleanseHost panics on the empty host.
New(host, r1, r2) ==
    IF host = <<>> THEN NewPanic(<<>>)
    ELSE NewAfterHead(NewClient(host), GetHead(NewClient(host), r1), r2)

\* ------------------------------------------------------------------ inputs
Clients == {DefaultClient, "c1", "c2"}
ConstantsValues ==
    { [PreservedCycles |-> 5, BlocksPerCycle |-> 4096],
      [PreservedCycles |-> 3, BlocksPerCycle |-> 2048] }
Statuses == {StatusOK, 204, 404}

\* Bodies a node sends.
HeadBody == <<"{", Q, "hash", Q, ":", Q, "BL1", Q, "}">>
ConstantsBody ==
    <<"{", Q, "preserved_cycles", Q, ":", Digit, ",",
      Q, "blocks_per_cycle", Q, ":", Digit, Digit, "}">>
BoomBody ==
    <<"[", "{", Q, "kind", Q, ":", Q, "permanent", Q, ",",
      Q, "error", Q, ":", Q, "boom", Q, "}", "]">>
ErrorFieldBody == <<"{", Q, "error", Q, ":", Q, "t", Q, "}">>

\* The elements of the error arrays of AllBodies.
RecordShapes ==
    { <<"{", Q, "kind", Q, ":", Q, "permanent", Q, ",", Q, "error", Q, ":", Q, "boom", Q, "}">>,
      <<"{", Q, "kind", Q, ":", Q, "temporary", Q, ",", Q, "error", Q, ":", Q, "t", Q, "}">>,
      <<"{", Q, "kind", Q, ":", Q, "t", "error", Q, "}">>,
      <<"{", Q, "error", Q, ":", Digit, "}">>,
      <<"{", "}">>,
      <<"null">>,
      <<Q, "error", Q>> }

RECURSIVE ArrayText(_)
\* The elements joined by "," (without the brackets).
ArrayText(es) ==
    IF es = <<>> THEN <<>>
    ELSE IF Len(es) = 1 THEN es[1]
    ELSE es[1] \o <<",">> \o ArrayText(Tail(es))

ErrorArrays ==
    { <<"[">> \o ArrayText(es) \o <<"]">> : es \in SeqsOf(RecordShapes, 0, MaxErrs) }

\* Every text of up to MaxBodyLen lexemes over BodyAlphabet, every array of up
\* to MaxErrs elements of RecordShapes, and the bodies above.
BodyAlphabet == {"[", "]", Q, "error", "t", "null", Ws}
AllBodies ==
    SeqsOf(BodyAlphabet, 0, MaxBodyLen) \cup ErrorArrays
        \cup {HeadBody, ConstantsBody, BoomBody, ErrorFieldBody}

AllResponses ==
    {TransportFailure} \cup
    { Response(st, b, ok) : st \in Statuses, b \in AllBodies, ok \in BOOLEAN }

SampleResponses ==
    { TransportFailure, Response(StatusOK, HeadBody, TRUE), Response(StatusOK, BoomBody, TRUE),
      Response(StatusOK, ErrorFieldBody, TRUE), Response(404, BoomBody, TRUE),
      Response(StatusOK, HeadBody, FALSE) }

BootResponses ==
    { TransportFailure, Response(StatusOK, HeadBody, TRUE),
      Response(StatusOK, ConstantsBody, TRUE), Response(StatusOK, BoomBody, TRUE) }

AllHosts == SeqsOf(HostAlphabet, 0, MaxHostLen)
SampleHosts ==
    { <<"https:", "/", "/", "node", "/">>, <<"node", "http:", "node">>, <<>> }

SamplePaths == {HeadPath, <<"/", Ctl>>}
AllOptions == SeqsOf(Options, 0, MaxOpts)
SampleOptions ==
    { <<>>, <<[Key |-> <<"b">>, Value |-> <<"1">>], [Key |-> <<"a">>, Value |-> <<"1">>]>> }
PostBody == <<"{", "}">>

\* ------------------------------------------------------------------- state
\* phase: "none" before New, "ready" once New returned a client, "nil" when
\*        New returned no client, "panicked" after a run-time panic.
\* gt:    the client New returned, as SetClient and SetConstants left it.
\* newRet: what New returned.
\* op, arg, ret: the last operation, its arguments, what it returned.
\* installed: the client last passed to SetClient (the default one if none).
\* pending: the arguments a run is started with, where a specification draws
\*        them in its initial state.
\* mem:   the memory behind gt.networkConstants as goroutines see it: the
\*        pointer word (0 is nil, else an index of cells) and the heap cells.
\* writers, readers: the goroutines inside SetConstants, and the goroutines
\*        reading the cached constants.
VARIABLES phase, gt, newRet, op, arg, ret, installed, pending, mem, writers, readers

vars == <<phase, gt, newRet, op, arg, ret, installed, pending, mem, writers, readers>>

Writers == {"w1", "w2"}
Readers == {"r1", "r2"}
Fields == {"PreservedCycles", "BlocksPerCycle"}

Mem(ptr, cells) ==
    [ptr |-> ptr, cells |-> cells]

\* The memory of a client no goroutine is writing: the cell its pointer names.
MemOf(t) ==
    IF t.networkConstants.set THEN Mem(1, <<t.networkConstants.val>>) ELSE Mem(0, <<>>)

IdleWriter == [pc |-> "idle", k |-> ZeroConstants, cell |-> 0, todo |-> {}]
IdleReader == [pc |-> "idle", ptr |-> 0, val |-> ZeroConstants]

NoGoroutines ==
    /\ writers = [w \in Writers |-> IdleWriter]
    /\ readers = [r \in Readers |-> IdleReader]

NoGoTezos == GoTezos(DefaultClient, NilConstants, <<>>)
NoCall == Call("", <<>>, <<>>, Returned(NilBytes, NoError, <<>>))

Arg(host, c, k, path, opts, r) ==
    [host |-> host, client |-> c, constants |-> k, path |-> path, opts |-> opts,
     resp |-> r]

NoArg == Arg(<<>>, DefaultClient, ZeroConstants, <<>>, <<>>, TransportFailure)

\* Before New.
Fresh ==
    /\ phase = "none"
    /\ gt = NoGoTezos
    /\ newRet = NewPanic(<<>>)
    /\ op = "none"
    /\ arg = NoArg
    /\ ret = NoCall
    /\ installed = DefaultClient
    /\ mem = MemOf(NoGoTezos)
    /\ NoGoroutines

Init ==
    /\ Fresh
    /\ pending = NoArg

\* New has returned (or panicked with) n.
NewReturned(host, n) ==
    /\ phase' = IF n.panic THEN "panicked" ELSE IF n.nil THEN "nil" ELSE "ready"
    /\ gt' = n.gt
    /\ newRet' = n
    /\ op' = "New"
    /\ arg' = [NoArg EXCEPT !.host = host]
    /\ ret' = NoCall
    /\ installed' = DefaultClient
    /\ mem' = MemOf(n.gt)
    /\ UNCHANGED <<pending, writers, readers>>

\* gt, err := New(host)
NewCall(host, r1, r2) ==
    /\ phase = "none"
    /\ NewReturned(host, New(host, r1, r2))

\* gt.SetClient(c)
SetClientCall(c) ==
    /\ phase = "ready"
    /\ gt' = SetClient(gt, c)
    /\ installed' = c
    /\ op' = "SetClient"
    /\ arg' = [NoArg EXCEPT !.client = c]
    /\ ret' = NoCall
    /\ UNCHANGED <<phase, newRet, pending, mem, writers, readers>>

\* gt.SetConstants(k)
SetConstantsCall(k) ==
    /\ phase = "ready"
    /\ gt' = SetConstants(gt, k)
    /\ mem' = MemOf(SetConstants(gt, k))
    /\ op' = "SetConstants"
    /\ arg' = [NoArg EXCEPT !.constants = k]
    /\ ret' = NoCall
    /\ UNCHANGED <<phase, newRet, installed, pending, writers, readers>>

\* A facade call that returned (or panicked with) g.
Called(name, path, opts, r, g) ==
    /\ phase' = IF g.panic THEN "panicked" ELSE phase
    /\ op' = name
    /\ arg' = [NoArg EXCEPT !.path = path, !.opts = opts, !.resp = r]
    /\ ret' = g
    /\ UNCHANGED <<gt, newRet, installed, pending, mem, writers, readers>>

\* gt.get(path, opts...)
GetCall(path, opts, r) ==
    /\ phase = "ready"
    /\ Called("get", path, opts, r, get(gt, path, opts, r))

\* gt.post(path, body, opts...)
PostCall(path, body, opts, r) ==
    /\ phase = "ready"
    /\ Called("post", path, opts, r, post(gt, path, body, opts, r))

\* gt.delete(path, opts...)
DeleteCall(path, opts, r) ==
    /\ phase = "ready"
    /\ Called("delete", path, opts, r, delete(gt, path, opts, r))

\* The life of one client, on sample inputs.
Next ==
    \/ \E h \in SampleHosts, r1, r2 \in BootResponses : NewCall(h, r1, r2)
    \/ \E c \in Clients : SetClientCall(c)
    \/ \E k \in ConstantsValues : SetConstantsCall(k)
    \/ \E p \in SamplePaths, o \in SampleOptions, r \in SampleResponses : GetCall(p, o, r)
    \/ \E p \in SamplePaths, o \in SampleOptions, r \in SampleResponses :
           PostCall(p, PostBody, o, r)
    \/ \E p \in SamplePaths, o \in SampleOptions, r \in SampleResponses : DeleteCall(p, o, r)

Spec == Init /\ [][Next]_vars

\* A client that New has returned, for the specifications that start there.
BootedClient ==
    New(<<"node">>, Response(StatusOK, HeadBody, TRUE), Response(StatusOK, ConstantsBody, TRUE))

BootedWith(n) ==
    /\ gt = n.gt
    /\ newRet = n
    /\ mem = MemOf(n.gt)

Booted ==
    /\ phase = "ready"
    /\ BootedWith(BootedClient)
    /\ op = "New"
    /\ arg = [NoArg EXCEPT !.host = <<"node">>]
    /\ ret = NoCall
    /\ installed = DefaultClient
    /\ NoGoroutines

\* The executor on every response: each run is started with one response and
\* makes its calls on it, with SetClient in between.
InitDo ==
    /\ Booted
    /\ \E r \in AllResponses : pending = [NoArg EXCEPT !.path = HeadPath, !.resp = r]

NextDo ==
    \/ \E c \in Clients : SetClientCall(c)
    \/ GetCall(pending.path, pending.opts, pending.resp)
    \/ PostCall(pending.path, PostBody, pending.opts, pending.resp)
    \/ DeleteCall(pending.path, pending.opts, pending.resp)

SpecDo == InitDo /\ [][NextDo]_vars

\* The query builder on every sequence of options.
InitQuery ==
    /\ Booted
    /\ \E o \in AllOptions :
           pending = [NoArg EXCEPT !.path = HeadPath, !.opts = o,
                                   !.resp = Response(StatusOK, HeadBody, TRUE)]

NextQuery ==
    \/ GetCall(pending.path, pending.opts, pending.resp)
    \/ PostCall(pending.path, PostBody, pending.opts, pending.resp)
    \/ DeleteCall(pending.path, pending.opts, pending.resp)

SpecQuery == InitQuery /\ [][NextQuery]_vars

\* The host normaliser on every host: each run is started with one host, and
\* the client New returns is then used.
InitHost ==
    /\ Fresh
    /\ \E h \in AllHosts : pending = [NoArg EXCEPT !.host = h]

NextHost ==
    \/ \E r2 \in {TransportFailure, Response(StatusOK, ConstantsBody, TRUE)} :
           NewCall(pending.host, Response(StatusOK, HeadBody, TRUE), r2)
    \/ SetClientCall("c1")
    \/ \E k \in ConstantsValues : SetConstantsCall(k)
    \/ \E r \in {TransportFailure, Response(StatusOK, HeadBody, TRUE)} :
           GetCall(HeadPath, <<>>, r)
    \/ PostCall(HeadPath, PostBody, <<>>, Response(StatusOK, BoomBody, TRUE))
    \/ DeleteCall(HeadPath, <<>>, Response(404, HeadBody, TRUE))

SpecHost == InitHost /\ [][NextHost]_vars

\* ---------------------------------------------- SetConstants, concurrently
\* SetConstants is "t.networkConstants = &constants": the parameter has its
\* address taken, so it lives in a heap cell of its own, the argument is copied
\* into the cell field by field, and the cell's address is stored in the
\* pointer word.  All are plain stores: no lock, atomic or channel orders them
\* for another goroutine, which under the Go memory model may therefore see
\* them in any order.  A store of a word is itself never split.

\* Goroutine w enters t.SetConstants(k): the cell is allocated, zeroed.
SetConstantsEnter(w, k) ==
    /\ phase = "ready"
    /\ writers[w].pc = "idle"
    /\ mem' = Mem(mem.ptr, Append(mem.cells, ZeroConstants))
    /\ writers' = [writers EXCEPT ![w] =
                       [pc |-> "storing", k |-> k, cell |-> Len(mem.cells) + 1,
                        todo |-> Fields \cup {"networkConstants"}]]
    /\ UNCHANGED <<phase, gt, newRet, op, arg, ret, installed, pending, readers>>

\* The memory once store s of writer wr is visible to the other goroutines.
Stored(wr, s) ==
    IF s = "networkConstants"
    THEN Mem(wr.cell, mem.cells)
    ELSE Mem(mem.ptr, [mem.cells EXCEPT ![wr.cell][s] = wr.k[s]])

\* One of w's stores becomes visible; SetConstants has returned after the last.
SetConstantsStore(w, s) ==
    /\ writers[w].pc = "storing"
    /\ s \in writers[w].todo
    /\ mem' = Stored(writers[w], s)
    /\ gt' = IF s = "networkConstants" THEN SetConstants(gt, writers[w].k) ELSE gt
    /\ writers' = [writers EXCEPT ![w].todo = @ \ {s},
                                  ![w].pc = IF writers[w].todo = {s} THEN "done" ELSE @]
    /\ UNCHANGED <<phase, newRet, op, arg, ret, installed, pending, readers>>

\* Goroutine r starts to read the cached constants: it loads the pointer word.
\* A nil pointer is dereferenced next, which panics.
ReadPointer(r) ==
    /\ phase = "ready"
    /\ readers[r].pc = "idle"
    /\ readers' = [readers EXCEPT ![r].ptr = mem.ptr,
                                  ![r].pc = IF mem.ptr = 0 THEN "panicked"
                                            ELSE "PreservedCycles"]
    /\ phase' = IF mem.ptr = 0 THEN "panicked" ELSE phase
    /\ UNCHANGED <<gt, newRet, op, arg, ret, installed, pending, mem, writers>>

\* Goroutine r loads the next field of the cell its pointer names.
ReadField(r) ==
    /\ readers[r].pc \in Fields
    /\ readers' = [readers EXCEPT
                       ![r].val[readers[r].pc] = mem.cells[readers[r].ptr][readers[r].pc],
                       ![r].pc = IF @ = "PreservedCycles" THEN "BlocksPerCycle" ELSE "done"]
    /\ UNCHANGED <<phase, gt, newRet, op, arg, ret, installed, pending, mem, writers>>

\* Two goroutines override the constants of a booted client while two read them.
InitRace ==
    /\ Booted
    /\ pending = NoArg

NextRace ==
    \/ \E w \in Writers, k \in ConstantsValues : SetConstantsEnter(w, k)
    \/ \E w \in Writers, s \in Fields \cup {"networkConstants"} : SetConstantsStore(w, s)
    \/ \E r \in Readers : ReadPointer(r)
    \/ \E r \in Readers : ReadField(r)

SpecRace == InitRace /\ [][NextRace]_vars

\* ================================================================== claims
IsCall == op \in {"get", "post", "delete"}

\* The last operation was a facade call that reached do.
DidDo == IsCall /\ ret.events # <<>>

\* The last call's response arrived and its body was read in full.
GotBody == DidDo /\ arg.resp.connected /\ arg.resp.readOK

IsRPCError(err) ==
    err # NoError /\ err[1].msg = MsgRPC

IsMalformed(err) ==
    err # NoError /\ err[1].msg = MsgUnmarshal

IsStatusError(err) ==
    err # NoError /\ err[1].msg = MsgStatus

\* C1, as claimed: a response is an RPC error exactly when its status is 200
\* and its body contains "error" in double quotes.
C1_QuotedErrorIffRPCError ==
    GotBody =>
        (IsRPCError(ret.err) <=>
            (arg.resp.status = StatusOK /\ Contains(arg.resp.body, <<Q, "error", Q>>)))

\* C1, amended: a 200 response read in full yields an error exactly when its
\* body contains the bytes error (quoted or not); the error is an RPC error
\* exactly when the body also decodes as an array of {kind, error} records,
\* and a malformed-payload error otherwise.  A response of another status
\* yields neither.
C1_ErrorIffContainsError ==
    GotBody =>
        /\ arg.resp.status # StatusOK => ~IsRPCError(ret.err) /\ ~IsMalformed(ret.err)
        /\ arg.resp.status = StatusOK =>
              /\ ret.err # NoError <=> Contains(arg.resp.body, <<"error">>)
              /\ ret.err # NoError => IsRPCError(ret.err) \/ IsMalformed(ret.err)
              /\ IsRPCError(ret.err) <=>
                    /\ Contains(arg.resp.body, <<"error">>)
                    /\ UnmarshalRPCErrors(arg.resp.body).ok

\* A 200 response whose body has error only outside double quotes' pairing
\* ("terror") and is an RPC error.
C1_Witness ==
    /\ GotBody
    /\ arg.resp.status = StatusOK
    /\ ~Contains(arg.resp.body, <<Q, "error", Q>>)
    /\ IsRPCError(ret.err)

\* C2: when do fails, a transport failure returns nil bytes, and every later
\* failure returns the bytes read from the body, with a non-nil error.
C2_FailureKeepsBody ==
    (DidDo /\ ~ret.panic /\ ret.err # NoError) =>
        IF arg.resp.connected THEN ret.bytes = Bytes(arg.resp.body)
        ELSE ret.bytes = NilBytes

\* An RPC error returned with the body that carried it.
C2_Witness ==
    /\ DidDo
    /\ arg.resp.body = BoomBody
    /\ IsRPCError(ret.err)
    /\ ret.bytes = Bytes(BoomBody)

\* C3: a response of a status other than 200, read in full, returns the
\* HTTP-status error with that status and the whole body, whatever the body
\* is: the classifier is not run.
C3_StatusErrorWhateverBody ==
    (GotBody /\ arg.resp.status # StatusOK) =>
        /\ ret.err = <<Frame(MsgStatus, arg.resp.status, <<>>, arg.resp.body)>>
        /\ ret.bytes = Bytes(arg.resp.body)
        /\ \A i \in 1..Len(ret.events) : ret.events[i].ev # "handleRPCError"

\* A 404 whose body is a well-formed error array.
C3_Witness ==
    /\ GotBody
    /\ arg.resp.status = 404
    /\ arg.resp.body = BoomBody
    /\ IsStatusError(ret.err)

\* C9: the classifier never faults; a body that contains error and decodes
\* gives the RPC error of its first record; one that does not decode gives
\* the malformed-payload error.  (A body that contains error never decodes to
\* an empty sequence: only null and [] do.)
C9_ClassifierOutcomes ==
    /\ phase # "panicked"
    /\ (GotBody /\ arg.resp.status = StatusOK /\ Contains(arg.resp.body, <<"error">>)) =>
          LET u == UnmarshalRPCErrors(arg.resp.body)
          IN  /\ ~u.ok => ret.err = Wrap(ErrJSON, MsgUnmarshal)
              /\ u.ok => /\ u.errs # <<>>
                         /\ ret.err = <<Frame(MsgRPC, 0, u.errs[1].Kind, u.errs[1].Error)>>

\* Two records of different kinds: the error is that of the first.
C9_Witness ==
    /\ GotBody
    /\ arg.resp.status = StatusOK
    /\ Len(UnmarshalRPCErrors(arg.resp.body).errs) = 2
    /\ IsRPCError(ret.err)
    /\ ret.err[1].kind = <<"permanent">>
    /\ UnmarshalRPCErrors(arg.resp.body).errs[2].Kind = <<"temporary">>

\* The events of the last call named ev.
EventsNamed(ev) ==
    SelectSeq(ret.events, LAMBDA e : e.ev = ev)

\* C10: do invokes the transport once, the one SetClient installed last (the
\* default one if none); it returns the body and no error exactly when the
\* transport answered, the body was read in full, the status is 200 and the
\* classifier found no error; then, and only then, it releases the idle
\* connections, once, after the classifier and as its last step.
C10_OneSendCloseOnSuccess ==
    DidDo =>
        /\ EventsNamed("Do") = <<Event("Do", installed)>>
        /\ ret.events[1] = Event("Do", installed)
        /\ ret.err = NoError <=>
              /\ arg.resp.connected
              /\ arg.resp.readOK
              /\ arg.resp.status = StatusOK
              /\ ~Contains(arg.resp.body, <<"error">>)
        /\ ret.err = NoError =>
              /\ ret.bytes = Bytes(arg.resp.body)
              /\ EventsNamed("CloseIdleConnections") =
                     <<Event("CloseIdleConnections", installed)>>
              /\ ret.events[Len(ret.events)].ev = "CloseIdleConnections"
              /\ ret.events[Len(ret.events) - 1].ev = "handleRPCError"
        /\ ret.err # NoError => EventsNamed("CloseIdleConnections") = <<>>

\* A successful call on a client installed by SetClient.
C10_Witness ==
    /\ DidDo
    /\ installed = "c2"
    /\ ret.err = NoError
    /\ ret.events[Len(ret.events)] = Event("CloseIdleConnections", "c2")

\* New has returned.
NewDone == phase \in {"ready", "nil"}

\* The calls of do the fetch f made.
Sends(f) ==
    SelectSeq(f.call.events, LAMBDA e : e.ev = "Do")

\* C6: New returns a client whatever the fetches do.  It returns no error and
\* cached constants exactly when the head fetch and then the constants fetch
\* succeed; otherwise an error and a client without constants.  The constants
\* fetch is not made after a failed head fetch, no fetch is made twice, and a
\* later SetConstants sets the constants.
C6_NewAlwaysReturnsClient ==
    /\ NewDone =>
          LET fs == newRet.fetches
          IN  /\ ~newRet.nil
              /\ Len(fs) \in {1, 2}
              /\ fs[1].step = "head"
              /\ Len(fs) = 2 => fs[1].err = NoError /\ fs[2].step = "constants"
              /\ \A i \in 1..Len(fs) : Len(Sends(fs[i])) <= 1
              /\ newRet.err = NoError <=>
                    (Len(fs) = 2 /\ fs[1].err = NoError /\ fs[2].err = NoError)
              /\ newRet.err = NoError <=> newRet.gt.networkConstants.set
    /\ op = "New" /\ NewDone => gt = newRet.gt
    /\ op = "SetConstants" => gt.networkConstants = PtrTo(arg.constants)

\* New failed at the constants fetch, and SetConstants then set the constants.
C6_Witness ==
    /\ NewDone
    /\ newRet.err # NoError
    /\ Len(newRet.fetches) = 2
    /\ ~newRet.gt.networkConstants.set
    /\ op = "SetConstants"
    /\ gt.networkConstants.set

HasFrame(err, msg) ==
    \E i \in 1..Len(err) : err[i].msg = msg

Positions(s, c) ==
    LET RECURSIVE from(_)
        from(i) == IF i > Len(s) THEN <<>>
                   ELSE IF s[i] = c THEN <<i>> \o from(i + 1) ELSE from(i + 1)
    IN  from(1)

\* The pieces of s between the separators c.
Split(s, c) ==
    LET ps == <<0>> \o Positions(s, c) \o <<Len(s) + 1>>
    IN  [i \in 1..(Len(ps) - 1) |-> SubSeq(s, ps[i] + 1, ps[i + 1] - 1)]

UnescapeByte(c) ==
    CASE c = "+" -> " "
      [] c = "%26" -> "&"
      [] c = "%3D" -> "="
      [] OTHER -> c

\* The options a query string reads as: its "&"-separated pieces, each split
\* at its first "=", unescaped.
ReadQuery(q) ==
    LET piece(t) == LET e == Positions(t, "=")[1]
                    IN  [Key |-> [i \in 1..(e - 1) |-> UnescapeByte(t[i])],
                         Value |-> [i \in 1..(Len(t) - e) |-> UnescapeByte(t[e + i])]]
        ts == Split(q, "&")
    IN  IF q = <<>> THEN <<>> ELSE [i \in 1..Len(ts) |-> piece(ts[i])]

Bijections(n) ==
    { f \in [1..n -> 1..n] : \A i, j \in 1..n : f[i] = f[j] => i = j }

\* C4, as claimed: the query holds one pair per option, and options of
\* distinct keys appear in the order they were supplied.
C4_InsertionOrderKept ==
    (IsCall /\ ret.err = NoError) =>
        LET pairs == ReadQuery(ret.query)
            opts == arg.opts
        IN  /\ Len(pairs) = Len(opts)
            /\ \E f \in Bijections(Len(opts)) :
                  /\ \A i \in 1..Len(opts) : pairs[f[i]] = opts[i]
                  /\ \A i, j \in 1..Len(opts) :
                        (i < j /\ opts[i].Key # opts[j].Key) => f[i] < f[j]

\* C4, amended: the query holds one pair per option; the pairs are sorted by
\* key (byte order), whatever the order the options were supplied in, and the
\* values of one key appear in the order they were supplied.
C4_SortedByKey ==
    (IsCall /\ ret.err = NoError) =>
        LET pairs == ReadQuery(ret.query)
            opts == arg.opts
        IN  /\ Len(pairs) = Len(opts)
            /\ \A i \in 1..(Len(pairs) - 1) : ~StrLess(pairs[i + 1].Key, pairs[i].Key)
            /\ \A k \in KeysOf(opts) \cup KeysOf(pairs) : ValuesOf(pairs, k) = ValuesOf(opts, k)

\* Keys b, a, b supplied: the query is a=..&b=..&b=.. with b's values in order.
C4_Witness ==
    /\ op = "get"
    /\ arg.opts = << [Key |-> <<"b">>, Value |-> <<"&", " ", "=">>],
                     [Key |-> <<"a">>, Value |-> <<"1">>],
                     [Key |-> <<"b">>, Value |-> <<"1">>] >>
    /\ ret.query = <<"a", "=", "1", "&", "b", "=", "%26", "+", "%3D", "&", "b", "=", "1">>

\* The host without one trailing slash.
DropOneSlash(h) ==
    IF h # <<>> /\ h[Len(h)] = "/" THEN SubSeq(h, 1, Len(h) - 1) ELSE h

EndsInSlash(h) ==
    h # <<>> /\ h[Len(h)] = "/"

HasScheme(h) ==
    HasPrefix(h, HttpPrefix) \/ HasPrefix(h, HttpsPrefix)

\* C5, as claimed: the stored host has no trailing slash and begins with
\* http:// or https://, for every non-empty host, and is never changed.
C5_NoTrailingSlash ==
    phase = "ready" =>
        /\ ~EndsInSlash(gt.host)
        /\ HasScheme(gt.host)
        /\ gt.host = newRet.gt.host

\* C5, amended: the stored host begins with http:// or https://, and one
\* trailing slash is removed: it has no trailing slash when the host passed,
\* less one trailing slash, is not empty and does not end in a slash, and it
\* ends in a slash when the host passed ends in two slashes.  It is never
\* changed after New.
C5_OneSlashDropped ==
    phase = "ready" =>
        LET h == DropOneSlash(pending.host)
        IN  /\ HasScheme(gt.host)
            /\ (h # <<>> /\ ~EndsInSlash(h)) => ~EndsInSlash(gt.host)
            /\ EndsInSlash(h) => EndsInSlash(gt.host)
            /\ HasScheme(h) => gt.host = h
            /\ gt.host = newRet.gt.host

\* node/ was passed, http://node is stored, and the client has been used.
C5_Witness ==
    /\ phase = "ready"
    /\ pending.host = <<"node", "/">>
    /\ gt.host = <<"http:", "/", "/", "node">>
    /\ op = "get"

\* C8: when SetConstants runs concurrently with readers of the cached
\* constants (and with other SetConstants calls), every completed read is the
\* value stored before the overrides or a value some SetConstants call was
\* given whole: no read mixes fields of different values or sees a field no
\* call supplied.
C8_NoTornRead ==
    \A r \in Readers :
        readers[r].pc = "done" =>
            readers[r].val \in
                {newRet.gt.networkConstants.val}
                    \cup {writers[w].k : w \in {x \in Writers : writers[x].pc # "idle"}}

====
